---- MODULE Spec2Model ----
(***************************************************************************)
(* A model of process_pdfs.py: the title / ignore-set analysis of the      *)
(* first page, the style hierarchy learned from the body pages, the        *)
(* heading validator, the outline assembly and the batch driver.           *)
(*                                                                         *)
(* Texts, font names and file names are sequences of one-character         *)
(* strings, so that strip, lower, join, split, endswith and the regular    *)
(* expression are computed and not assumed.  A span's size is a fixed      *)
(* point number in tenths of a point (105 is 10.5), so that round() is     *)
(* computed too.                                                           *)
(***************************************************************************)
EXTENDS Integers, Sequences, FiniteSets, TLC

(***************************************************************************)
(* Bounds of the model.                                                    *)
(***************************************************************************)
\* pages of a document of the document specification
MaxPages == 2
\* lines (image blocks count as one) of a document of the document specification
MaxLines == 4
\* entries of a directory listing of the batch specification
MaxFiles == 2
\* lines of a document of the documents that vary in style
MaxStyleLines == 5

(***************************************************************************)
(* Strings as sequences of characters.                                     *)
(***************************************************************************)
UpperCase == <<"A","B","C","D","E","F","G","H","I","J","K","L","M",
               "N","O","P","Q","R","S","T","U","V","W","X","Y","Z">>
LowerCase == <<"a","b","c","d","e","f","g","h","i","j","k","l","m",
               "n","o","p","q","r","s","t","u","v","w","x","y","z">>
Digits == {"0","1","2","3","4","5","6","7","8","9"}

\* str.isspace of one character
IsSpace(c) == c \in {" ", "\n", "\t"}

\* str.lower of one character
LowerTable ==
    [c \in {UpperCase[k] : k \in 1..26} |->
        LowerCase[CHOOSE k \in 1..26 : UpperCase[k] = c]]

LowerChar(c) == IF c \in DOMAIN LowerTable THEN LowerTable[c] ELSE c

\* str.lower
Lower(t) == [k \in 1..Len(t) |-> LowerChar(t[k])]

RECURSIVE LStrip(_)
LStrip(t) == IF t # <<>> /\ IsSpace(Head(t)) THEN LStrip(Tail(t)) ELSE t

RECURSIVE RStrip(_)
RStrip(t) ==
    IF t # <<>> /\ IsSpace(t[Len(t)]) THEN RStrip(SubSeq(t, 1, Len(t) - 1)) ELSE t

\* str.strip
Strip(t) == RStrip(LStrip(t))

\* sep.join(parts)
RECURSIVE Join(_, _)
Join(sep, parts) ==
    IF parts = <<>> THEN <<>>
    ELSE IF Len(parts) = 1 THEN parts[1]
    ELSE parts[1] \o sep \o Join(sep, Tail(parts))

\* needle in hay
Contains(needle, hay) ==
    \E k \in 0..(Len(hay) - Len(needle)) :
        SubSeq(hay, k + 1, k + Len(needle)) = needle

\* str.endswith
EndsWith(t, suffix) ==
    /\ Len(t) >= Len(suffix)
    /\ SubSeq(t, Len(t) - Len(suffix) + 1, Len(t)) = suffix

\* len(text.split()): the number of maximal runs of non-space characters
WordCount(t) ==
    Cardinality({k \in 1..Len(t) :
        /\ ~IsSpace(t[k])
        /\ (k = 1 \/ IsSpace(t[k - 1]))})

\* text.split('\n')[0]
RECURSIVE FirstLineOf(_)
FirstLineOf(t) ==
    IF t = <<>> \/ Head(t) = "\n" THEN <<>>
    ELSE <<Head(t)>> \o FirstLineOf(Tail(t))

\* round() of a size given in tenths: to the nearest integer, a half to even
Round(size) ==
    LET q == size \div 10
        r == size % 10
    IN  IF r < 5 THEN q
        ELSE IF r > 5 THEN q + 1
        ELSE IF q % 2 = 0 THEN q ELSE q + 1

(***************************************************************************)
(* The literals of the program.                                            *)
(***************************************************************************)
BOLD == <<"b","o","l","d">>
DOT_PDF == <<".","p","d","f">>
DOT_JSON == <<".","j","s","o","n">>
S_NO == <<"s",".","n","o">>
TitleNotFound == <<"T","i","t","l","e"," ","n","o","t"," ","f","o","u","n","d">>
ErrorProcessing ==
    <<"E","r","r","o","r"," ","p","r","o","c","e","s","s","i","n","g"," ">>
FormLabels ==
    { <<"n","a","m","e">>,
      <<"a","g","e">>,
      <<"r","e","l","a","t","i","o","n","s","h","i","p">>,
      <<"d","a","t","e">>,
      <<"s","i","g","n","a","t","u","r","e"," ","o","f"," ",
        "g","o","v","e","r","n","m","e","n","t"," ",
        "s","e","r","v","a","n","t",".">> }
MaxWords == 4
TopStyles == 3
HeadingLevels == {"H1", "H2", "H3"}
\* None, where a record is expected
None == [none |-> TRUE]
\* None, where a (size, bold) pair is expected
NoStyle == <<>>

(***************************************************************************)
(* is_valid_heading                                                        *)
(***************************************************************************)
\* re.fullmatch(r'[\d\.]+|S\.No', text, re.IGNORECASE)
IsListMarker(text) ==
    \/ /\ text # <<>>
       /\ \A k \in 1..Len(text) : text[k] \in Digits \cup {"."}
    \/ Lower(text) = S_NO

is_valid_heading(raw) ==
    LET text == Strip(raw)
    IN  IF text = <<>> THEN FALSE
        ELSE IF IsListMarker(text) THEN FALSE
        ELSE IF EndsWith(text, <<".">>) /\ WordCount(text) > MaxWords THEN FALSE
        ELSE IF Lower(text) \in FormLabels THEN FALSE
        ELSE TRUE

(***************************************************************************)
(* The extractor's output.  A document is a sequence of pages, a page a    *)
(* sequence of blocks, a text block a record with a "lines" field (an      *)
(* image block has none), a line a sequence of spans, a span a record of   *)
(* text, size (tenths of a point) and font name.                           *)
(***************************************************************************)
Span(text, size, font) == [text |-> text, size |-> size, font |-> font]
TextBlock(lines) == [lines |-> lines]
ImageBlock == [image |-> TRUE]
ImageText == <<"<","i","m","a","g","e",">">>

\* block has "lines", the lines are not empty and the first line has spans
HasFirstSpan(block) ==
    /\ "lines" \in DOMAIN block
    /\ block.lines # <<>>
    /\ block.lines[1] # <<>>

\* " ".join(s["text"] for s in line["spans"]).strip()
LineText(line) == Strip(Join(<<" ">>, [k \in 1..Len(line) |-> line[k].text]))

\* (round(span["size"]), "bold" in span["font"].lower())
StyleOf(span) == <<Round(span.size), Contains(BOLD, Lower(span.font))>>

\* page.get_text("blocks"): one entry per block, holding the block's text,
\* the lines of a text block each ended by a newline
RECURSIVE ConcatAll(_)
ConcatAll(parts) ==
    IF parts = <<>> THEN <<>> ELSE Head(parts) \o ConcatAll(Tail(parts))

RawBlockText(block) ==
    IF "lines" \in DOMAIN block
    THEN ConcatAll([k \in 1..Len(block.lines) |->
             ConcatAll([j \in 1..Len(block.lines[k]) |-> block.lines[k][j].text])
             \o <<"\n">>])
    ELSE ImageText

RawBlocks(page) == [k \in 1..Len(page) |-> RawBlockText(page[k])]

(***************************************************************************)
(* get_style_hierarchy                                                     *)
(***************************************************************************)
\* the styles of the first spans of the lines that have spans, in order
RECURSIVE LineStyles(_)
LineStyles(lines) ==
    IF lines = <<>> THEN <<>>
    ELSE (IF Head(lines) # <<>> THEN <<StyleOf(Head(lines)[1])>> ELSE <<>>)
         \o LineStyles(Tail(lines))

BlockStyles(block) ==
    IF "lines" \in DOMAIN block THEN LineStyles(block.lines) ELSE <<>>

PageStyles(page) == ConcatAll([k \in 1..Len(page) |-> BlockStyles(page[k])])

\* the styles met by the loops over range(start_page, len(doc)), in order
ScannedStyles(doc, start_page) ==
    ConcatAll([k \in 1..(Len(doc) - start_page) |-> PageStyles(doc[start_page + k])])

\* style_counts[style] += 1 on a Counter: an insertion-ordered table
CountOne(table, style) ==
    IF \E k \in 1..Len(table) : table[k].style = style
    THEN LET k == CHOOSE j \in 1..Len(table) : table[j].style = style
         IN  [table EXCEPT ![k].count = @ + 1]
    ELSE Append(table, [style |-> style, count |-> 1])

RECURSIVE CountStyles(_, _)
CountStyles(table, styles) ==
    IF styles = <<>> THEN table
    ELSE CountStyles(CountOne(table, Head(styles)), Tail(styles))

\* a most_common that keeps the last of the largest
RECURSIVE MostCommon_LastOfTies(_, _)
MostCommon_LastOfTies(best, rest) ==
    IF rest = <<>> THEN best.style
    ELSE IF Head(rest).count >= best.count
         THEN MostCommon_LastOfTies(Head(rest), Tail(rest))
    ELSE MostCommon_LastOfTies(best, Tail(rest))

\* style_counts.most_common(1)[0][0]: max() keeps the first of the largest
RECURSIVE MostCommon(_, _)
MostCommon(best, rest) ==
    IF rest = <<>> THEN best.style
    ELSE IF Head(rest).count > best.count THEN MostCommon(Head(rest), Tail(rest))
    ELSE MostCommon(best, Tail(rest))

\* the condition of the list comprehension over the table's keys
IsHeadingStyle(s, body_style) ==
    \/ s[1] > body_style[1]
    \/ (s[1] = body_style[1] /\ s[2] /\ s # body_style)

RECURSIVE SelectHeadingStyles(_, _)
SelectHeadingStyles(table, body_style) ==
    IF table = <<>> THEN <<>>
    ELSE (IF IsHeadingStyle(Head(table).style, body_style)
          THEN <<Head(table).style>> ELSE <<>>)
         \o SelectHeadingStyles(Tail(table), body_style)

\* one step of a stable sort by size, largest first: x goes after every
\* element that is at least as large
RECURSIVE InsertBySize(_, _)
InsertBySize(sorted, x) ==
    IF sorted = <<>> THEN <<x>>
    ELSE IF Head(sorted)[1] >= x[1] THEN <<Head(sorted)>> \o InsertBySize(Tail(sorted), x)
    ELSE <<x>> \o sorted

\* sorted(styles, key=lambda x: x[0], reverse=True)
RECURSIVE SortBySizeDesc(_, _)
SortBySizeDesc(sorted, styles) ==
    IF styles = <<>> THEN sorted
    ELSE SortBySizeDesc(InsertBySize(sorted, Head(styles)), Tail(styles))

\* f"H{i+1}"
LevelName(i) == "H" \o ToString(i + 1)

\* a level map that keeps one style too many
LevelMap_OneMore(heading_styles) ==
    LET top == SubSeq(heading_styles, 1,
                      IF Len(heading_styles) < TopStyles + 1
                      THEN Len(heading_styles) ELSE TopStyles + 1)
    IN  [s \in {top[k] : k \in 1..Len(top)} |->
            LevelName((CHOOSE k \in 1..Len(top) : top[k] = s) - 1)]

\* {style: f"H{i+1}" for i, style in enumerate(heading_styles[:3])}
LevelMap(heading_styles) ==
    LET top == SubSeq(heading_styles, 1,
                      IF Len(heading_styles) < TopStyles
                      THEN Len(heading_styles) ELSE TopStyles)
    IN  [s \in {top[k] : k \in 1..Len(top)} |->
            LevelName((CHOOSE k \in 1..Len(top) : top[k] = s) - 1)]

\* the value of a one-element set: binds a computed value once
TheOne(set) == CHOOSE x \in set : TRUE

\* lines 30 to 41, for a table that is not empty
HierarchyOfTable(style_counts) ==
    TheOne({ <<LevelMap(SortBySizeDesc(<<>>, SelectHeadingStyles(style_counts, body_style))),
               body_style>> :
             body_style \in { MostCommon(Head(style_counts), Tail(style_counts)) } })

\* the pair (style_to_level, body_style)
get_style_hierarchy(doc, start_page) ==
    TheOne({ IF style_counts = <<>> THEN <<<<>>, NoStyle>>
             ELSE HierarchyOfTable(style_counts) :
             style_counts \in { CountStyles(<<>>, ScannedStyles(doc, start_page)) } })

(***************************************************************************)
(* analyze_first_page                                                      *)
(***************************************************************************)
Max(a, b) == IF a >= b THEN a ELSE b

RECURSIVE MaxFontSize(_, _)
MaxFontSize(max_font_size, blocks) ==
    IF blocks = <<>> THEN max_font_size
    ELSE MaxFontSize(
             IF HasFirstSpan(Head(blocks))
             THEN Max(max_font_size, Round(Head(blocks).lines[1][1].size))
             ELSE max_font_size,
             Tail(blocks))

\* the texts of the first lines whose first span has the largest size
RECURSIVE TitleLines(_, _)
TitleLines(blocks, max_font_size) ==
    IF blocks = <<>> THEN <<>>
    ELSE (IF /\ HasFirstSpan(Head(blocks))
             /\ Round(Head(blocks).lines[1][1].size) = max_font_size
          THEN <<LineText(Head(blocks).lines[1])>> ELSE <<>>)
         \o TitleLines(Tail(blocks), max_font_size)

\* the texts of the other first lines
IgnoredTexts(blocks, max_font_size) ==
    { LineText(blocks[k].lines[1]) :
        k \in {j \in 1..Len(blocks) :
                 /\ HasFirstSpan(blocks[j])
                 /\ Round(blocks[j].lines[1][1].size) # max_font_size} }

\* the pair (title, texts_to_ignore)
analyze_first_page(doc) ==
    IF doc = <<>> THEN <<TitleNotFound, {}>>
    ELSE LET blocks == doc[1]
             max_font_size == MaxFontSize(0, blocks)
             title_lines == TitleLines(blocks, max_font_size)
         IN  IF blocks = <<>> THEN <<TitleNotFound, {}>>
             ELSE IF max_font_size = 0
             THEN IF RawBlocks(blocks) # <<>>
                  THEN <<FirstLineOf(Strip(RawBlocks(blocks)[1])), {}>>
                  ELSE <<TitleNotFound, {}>>
             ELSE <<IF title_lines # <<>> THEN Join(<<" ">>, title_lines)
                    ELSE TitleNotFound,
                    IgnoredTexts(blocks, max_font_size)>>

(***************************************************************************)
(* The third pass of process_pdf_document                                  *)
(***************************************************************************)
\* a third pass that forgets to skip the title
BlockEntries_TitleKept(block, page_num, title, texts_to_ignore, style_to_level) ==
    IF ~HasFirstSpan(block) THEN <<>>
    ELSE LET line_text == LineText(block.lines[1])
             current_style == StyleOf(block.lines[1][1])
         IN  IF line_text = <<>> \/ line_text \in texts_to_ignore
             THEN <<>>
             ELSE IF /\ current_style \in DOMAIN style_to_level
                     /\ is_valid_heading(line_text)
                     /\ style_to_level[current_style] \in HeadingLevels
             THEN << [level |-> style_to_level[current_style],
                      text |-> line_text,
                      page |-> page_num + 1] >>
             ELSE <<>>

\* a third pass that forgets the ignore set
BlockEntries_IgnoredKept(block, page_num, title, texts_to_ignore, style_to_level) ==
    IF ~HasFirstSpan(block) THEN <<>>
    ELSE LET line_text == LineText(block.lines[1])
             current_style == StyleOf(block.lines[1][1])
         IN  IF line_text = <<>> \/ line_text = title
             THEN <<>>
             ELSE IF /\ current_style \in DOMAIN style_to_level
                     /\ is_valid_heading(line_text)
                     /\ style_to_level[current_style] \in HeadingLevels
             THEN << [level |-> style_to_level[current_style],
                      text |-> line_text,
                      page |-> page_num + 1] >>
             ELSE <<>>

\* the entry a block adds to the outline, as a sequence of zero or one
BlockEntries(block, page_num, title, texts_to_ignore, style_to_level) ==
    IF ~HasFirstSpan(block) THEN <<>>
    ELSE LET line_text == LineText(block.lines[1])
             current_style == StyleOf(block.lines[1][1])
         IN  IF line_text = <<>> \/ line_text = title \/ line_text \in texts_to_ignore
             THEN <<>>
             ELSE IF /\ current_style \in DOMAIN style_to_level
                     /\ is_valid_heading(line_text)
                     /\ style_to_level[current_style] \in HeadingLevels
             THEN << [level |-> style_to_level[current_style],
                      text |-> line_text,
                      page |-> page_num + 1] >>
             ELSE <<>>

PageEntries(page, page_num, title, texts_to_ignore, style_to_level) ==
    ConcatAll([k \in 1..Len(page) |->
        BlockEntries(page[k], page_num, title, texts_to_ignore, style_to_level)])

\* the outline built by the loop over enumerate(doc)
ExtractOutline(doc, title, texts_to_ignore, style_to_level) ==
    ConcatAll([k \in 1..Len(doc) |->
        PageEntries(doc[k], k - 1, title, texts_to_ignore, style_to_level)])

(***************************************************************************)
(* process_all_pdfs: the names                                             *)
(***************************************************************************)
\* filename.lower().endswith(".pdf")
IsPdfName(filename) == EndsWith(Lower(filename), DOT_PDF)

\* os.path.splitext(filename)[0]: up to the last dot, unless only dots precede it
SplitExtRoot(filename) ==
    LET dots == {k \in 1..Len(filename) : filename[k] = "."}
    IN  IF dots = {} THEN filename
        ELSE LET last == CHOOSE k \in dots : \A j \in dots : j <= k
             IN  IF \A j \in 1..(last - 1) : filename[j] = "."
                 THEN filename
                 ELSE SubSeq(filename, 1, last - 1)

\* f"{os.path.splitext(filename)[0]}.json"
OutputName(filename) == SplitExtRoot(filename) \o DOT_JSON

\* {"title": f"Error processing {os.path.basename(pdf_path)}", "outline": []}
ErrorResult(filename) == [title |-> ErrorProcessing \o filename, outline |-> <<>>]

(***************************************************************************)
(* The inputs.                                                             *)
(***************************************************************************)
\* A file on disk: opens says whether fitz.open returns a document, loads
\* whether its pages can be loaded afterwards (an encrypted or damaged file
\* opens and then fails on the first page access), pages is the document.
File(opens, loads, pages) == [opens |-> opens, loads |-> loads, pages |-> pages]

TextPool == { <<"A">>, <<"1", ".">> }
SizePool == { 105, 160 }
NextSizePool == { 100, 160 }
StyleSizePool == { 105, 115, 160 }
REGULAR == <<"R","e","g">>
BOLDFACE == <<"B","o","l","d">>
FontPool == { REGULAR, BOLDFACE }

\* the first lines of the blocks of the documents that vary in text and layout
LinePool == { <<Span(t, s, REGULAR)>> : t \in TextPool, s \in SizePool }
\* the lines that follow the first line of a block: the program reads only
\* the size and the font of their first span
NextLinePool == { <<Span(<<"A">>, s, REGULAR)>> : s \in NextSizePool }
\* the lines of the documents that vary in style
StyleLinePool == { <<Span(<<"A">>, s, f)>> : s \in StyleSizePool, f \in FontPool }

\* The layout of a document: a sequence of pages, each a sequence of block
\* sizes, 0 for an image block and n > 0 for a text block of n lines.  An
\* image block weighs as much as one line.
Weight(n) == IF n = 0 THEN 1 ELSE n

\* the page layouts of weight w
RECURSIVE PageShapes(_)
PageShapes(w) ==
    IF w = 0 THEN { <<>> }
    ELSE UNION { { <<n>> \o p : p \in PageShapes(w - Weight(n)) } :
                 n \in { m \in 0..w : Weight(m) <= w } }

\* the document layouts of p pages and weight w
RECURSIVE DocShapes(_, _)
DocShapes(p, w) ==
    IF p = 0 THEN (IF w = 0 THEN { <<>> } ELSE {})
    ELSE UNION { { <<pg>> \o d : pg \in PageShapes(k), d \in DocShapes(p - 1, w - k) } :
                 k \in 0..w }

Shapes(maxPages, maxLines) ==
    UNION { DocShapes(p, w) : p \in 0..maxPages, w \in 0..maxLines }

RECURSIVE Sum(_)
Sum(ns) == IF ns = <<>> THEN 0 ELSE Head(ns) + Sum(Tail(ns))

\* the block sizes of a layout, in reading order
BlockSizes(shape) == ConcatAll(shape)
\* the number of text blocks, and of lines that are not the first of their block
FirstLineCount(shape) ==
    Cardinality({ g \in 1..Len(BlockSizes(shape)) : BlockSizes(shape)[g] > 0 })
NextLineCount(shape) ==
    Sum([g \in 1..Len(BlockSizes(shape)) |->
            IF BlockSizes(shape)[g] > 0 THEN BlockSizes(shape)[g] - 1 ELSE 0])

\* the document of a layout: the first lines of its text blocks are taken
\* from `firsts` and the other lines from `nexts`, both in reading order
FillBlock(sizes, g, firsts, nexts) ==
    IF sizes[g] = 0 THEN ImageBlock
    ELSE LET before == SubSeq(sizes, 1, g - 1)
             f == Cardinality({ j \in 1..(g - 1) : before[j] > 0 })
             n == Sum([j \in 1..(g - 1) |-> IF before[j] > 0 THEN before[j] - 1 ELSE 0])
         IN  TextBlock([l \in 1..sizes[g] |->
                 IF l = 1 THEN firsts[f + 1] ELSE nexts[n + l - 1]])

FillDoc(shape, firsts, nexts) ==
    [p \in 1..Len(shape) |->
        [b \in 1..Len(shape[p]) |->
            FillBlock(BlockSizes(shape),
                      Sum([q \in 1..(p - 1) |-> Len(shape[q])]) + b,
                      firsts, nexts)]]

TextShapes == Shapes(MaxPages, MaxLines)
\* no page, a page of one line, a page of one block of two lines
BatchShapes == { <<>>, << <<1>> >>, << <<2>> >> }
BatchLinePool == { <<Span(<<"A">>, s, REGULAR)>> : s \in SizePool }

\* a document of an empty first page and a second page of one-line blocks
StyleDoc(lines) == << <<>>, [k \in 1..Len(lines) |-> TextBlock(<<lines[k]>>)] >>

A_PDF == <<"a",".","p","d","f">>
A_PDF_UPPER == <<"a",".","P","D","F">>
B_PDF == <<"b",".","p","d","f">>
N_TXT == <<"n",".","t","x","t">>
NamePool == { A_PDF, A_PDF_UPPER, B_PDF, N_TXT }

Unopenable == File(FALSE, FALSE, <<>>)
Unloadable == File(TRUE, FALSE, << <<TextBlock(<< <<Span(<<"A">>, 160, REGULAR)>> >>)>> >>)

\* what os.listdir can return: distinct names, in any order
Listings ==
    UNION { { l \in [1..n -> NamePool] : \A j, k \in 1..n : j # k => l[j] # l[k] } :
            n \in 0..MaxFiles }

Range(f) == { f[k] : k \in DOMAIN f }

(***************************************************************************)
(* The state.                                                              *)
(***************************************************************************)
VARIABLES
    listing,          \* os.listdir(input_dir)
    disk,             \* the file of every listed name
    output_dir,       \* whether the output directory exists
    output,           \* the JSON files of the output directory, by name
    i,                \* the position of the loop over the listing
    pc,               \* the statement the program is at
    doc,              \* the document process_pdf_document has open, or None
    title,            \* locals of process_pdf_document
    texts_to_ignore,
    style_to_level,
    body_style,
    structured_data,  \* what process_pdf_document returned
    results,          \* the results returned so far, by position in the listing
    open_handles      \* the listed names whose document is open

vars == <<listing, disk, output_dir, output, i, pc, doc, title, texts_to_ignore,
          style_to_level, body_style, structured_data, results, open_handles>>

pdf_path == listing[i]

Locals ==
    /\ doc = None
    /\ title = <<>>
    /\ texts_to_ignore = {}
    /\ style_to_level = <<>>
    /\ body_style = NoStyle
    /\ structured_data = None
    /\ results = <<>>
    /\ open_handles = {}
    /\ output = <<>>

\* one call of process_pdf_document on one file: a document of any layout
\* whose blocks begin with one of two texts in one of two sizes, or a document
\* of one-line blocks over every size and font, or a file that does not open,
\* or one that does not load
InitDoc ==
    /\ listing = <<A_PDF>>
    /\ \/ \E shape \in TextShapes :
            \E firsts \in [1..FirstLineCount(shape) -> LinePool] :
                \E nexts \in [1..NextLineCount(shape) -> NextLinePool] :
                    disk = [n \in {A_PDF} |->
                               File(TRUE, TRUE, FillDoc(shape, firsts, nexts))]
       \/ \E n \in 0..MaxStyleLines :
            \E lines \in [1..n -> StyleLinePool] :
                disk = [m \in {A_PDF} |-> File(TRUE, TRUE, StyleDoc(lines))]
       \/ disk \in [ {A_PDF} -> {Unopenable, Unloadable} ]
    /\ output_dir = TRUE
    /\ i = 1
    /\ pc = "open"
    /\ Locals

\* the files a batch is made of
BatchFiles ==
    UNION { { File(TRUE, TRUE, FillDoc(shape, firsts, nexts)) :
                firsts \in [1..FirstLineCount(shape) -> BatchLinePool],
                nexts \in [1..NextLineCount(shape) -> NextLinePool] } :
            shape \in BatchShapes }
    \cup { Unopenable, Unloadable }

\* one run of process_all_pdfs
InitBatch ==
    /\ listing \in Listings
    /\ disk \in [ Range(listing) -> BatchFiles ]
    /\ \A n \in Range(listing) : ~IsPdfName(n) => disk[n] = Unopenable
    /\ output_dir \in BOOLEAN
    /\ i = 0
    /\ pc = "start"
    /\ Locals

(***************************************************************************)
(* process_pdf_document                                                    *)
(***************************************************************************)
\* return: the result goes to the caller; the local doc goes out of scope
\* without doc.close(), and whether the runtime has finalized the object by
\* the time the caller goes on is left open
Return(data) ==
    /\ structured_data' = data
    /\ results' = Append(results, data)
    /\ doc' = None
    /\ open_handles' \in { open_handles, open_handles \ {pdf_path} }
    /\ pc' = "returned"

\* try: doc = fitz.open(pdf_path) / except: return the error result
Open ==
    /\ pc = "open"
    /\ \/ /\ disk[pdf_path].opens
          /\ doc' = disk[pdf_path]
          /\ open_handles' = open_handles \cup {pdf_path}
          /\ pc' = "pass1"
          /\ UNCHANGED <<structured_data, results>>
       \/ /\ ~disk[pdf_path].opens
          /\ structured_data' = ErrorResult(pdf_path)
          /\ results' = Append(results, ErrorResult(pdf_path))
          /\ pc' = "returned"
          /\ UNCHANGED <<doc, open_handles>>
    /\ title' = <<>>
    /\ texts_to_ignore' = {}
    /\ style_to_level' = <<>>
    /\ body_style' = NoStyle
    /\ UNCHANGED <<listing, disk, output_dir, output, i>>

\* title, texts_to_ignore = analyze_first_page(doc); doc[0] raises when the
\* pages cannot be loaded, and nothing catches it
Pass1 ==
    /\ pc = "pass1"
    /\ \/ /\ doc.loads \/ doc.pages = <<>>
          /\ LET first == analyze_first_page(doc.pages)
             IN  /\ title' = first[1]
                 /\ texts_to_ignore' = first[2]
          /\ pc' = "pass2"
       \/ /\ ~doc.loads /\ doc.pages # <<>>
          /\ pc' = "raised"
          /\ UNCHANGED <<title, texts_to_ignore>>
    /\ UNCHANGED <<listing, disk, output_dir, output, i, doc, style_to_level,
                   body_style, structured_data, results, open_handles>>

\* start_page_for_styles = 1 if len(doc) > 1 else 0
start_page_for_styles(d) == IF Len(d) > 1 THEN 1 ELSE 0

\* style_to_level, _ = get_style_hierarchy(...); if not style_to_level: return
Pass2 ==
    /\ pc = "pass2"
    /\ \E h \in { get_style_hierarchy(doc.pages, start_page_for_styles(doc.pages)) } :
           /\ style_to_level' = h[1]
           /\ body_style' = h[2]
           /\ \/ /\ DOMAIN h[1] = {}
                 /\ Return([title |-> title, outline |-> <<>>])
              \/ /\ DOMAIN h[1] # {}
                 /\ pc' = "pass3"
                 /\ UNCHANGED <<doc, structured_data, results, open_handles>>
    /\ UNCHANGED <<listing, disk, output_dir, output, i, title, texts_to_ignore>>

\* the loop over the pages, and the final return
Pass3 ==
    /\ pc = "pass3"
    /\ Return([title |-> title,
               outline |-> ExtractOutline(doc.pages, title, texts_to_ignore,
                                          style_to_level)])
    /\ UNCHANGED <<listing, disk, output_dir, output, i, title, texts_to_ignore,
                   style_to_level, body_style>>

NextDoc == Open \/ Pass1 \/ Pass2 \/ Pass3

SpecDoc == InitDoc /\ [][NextDoc]_vars

(***************************************************************************)
(* process_all_pdfs                                                        *)
(***************************************************************************)
\* if not os.path.exists(output_dir): os.makedirs(output_dir)
Start ==
    /\ pc = "start"
    /\ output_dir' = TRUE
    /\ i' = 1
    /\ pc' = "loop"
    /\ UNCHANGED <<listing, disk, output, doc, title, texts_to_ignore,
                   style_to_level, body_style, structured_data, results,
                   open_handles>>

\* for filename in os.listdir(input_dir): if filename.lower().endswith(".pdf")
Loop ==
    /\ pc = "loop"
    /\ \/ /\ i > Len(listing)
          /\ pc' = "done"
          /\ UNCHANGED <<i, results>>
       \/ /\ i <= Len(listing)
          /\ ~IsPdfName(listing[i])
          /\ i' = i + 1
          /\ results' = Append(results, None)
          /\ UNCHANGED pc
       \/ /\ i <= Len(listing)
          /\ IsPdfName(listing[i])
          /\ pc' = "open"
          /\ UNCHANGED <<i, results>>
    /\ UNCHANGED <<listing, disk, output_dir, output, doc, title, texts_to_ignore,
                   style_to_level, body_style, structured_data, open_handles>>

\* if structured_data: json.dump(structured_data, open(output_path, 'w'))
Write ==
    /\ pc = "returned"
    /\ IF structured_data # None
       THEN output' = [n \in DOMAIN output \cup {OutputName(listing[i])} |->
                          IF n = OutputName(listing[i]) THEN structured_data
                          ELSE output[n]]
       ELSE UNCHANGED output
    /\ i' = i + 1
    /\ pc' = "loop"
    /\ UNCHANGED <<listing, disk, output_dir, doc, title, texts_to_ignore,
                   style_to_level, body_style, structured_data, results,
                   open_handles>>

NextBatch == Start \/ Loop \/ NextDoc \/ Write

SpecBatch == InitBatch /\ [][NextBatch]_vars

(***************************************************************************)
(* What the claims speak of.                                               *)
(***************************************************************************)
\* the pages of the file being processed
thePages == disk[listing[1]].pages
\* process_pdf_document has returned a result for an opened document
Returned == pc = "returned" /\ disk[listing[1]].opens
theOutline == structured_data.outline
\* the positions <<page, block>> of the blocks whose first line has spans
FirstLineBlocks ==
    { pb \in UNION { { <<p, b>> : b \in 1..Len(thePages[p]) } : p \in 1..Len(thePages) } :
        HasFirstSpan(thePages[pb[1]][pb[2]]) }
FirstLine(pb) == thePages[pb[1]][pb[2]].lines[1]
\* the positions <<page, block, line>> of the lines that have spans
AllLines ==
    { pbl \in UNION { UNION { { <<p, b, l>> : l \in 1..Len(thePages[p][b].lines) } :
                              b \in { c \in 1..Len(thePages[p]) :
                                        "lines" \in DOMAIN thePages[p][c] } } :
                      p \in 1..Len(thePages) } :
        thePages[pbl[1]][pbl[2]].lines[pbl[3]] # <<>> }
LineAt(pbl) == thePages[pbl[1]][pbl[2]].lines[pbl[3]]
\* the pages the style pass scans, as 1-based page numbers
ScannedPages == (start_page_for_styles(thePages) + 1)..Len(thePages)
\* the rules of the heading validator, on a stripped text
PassesRules(t) ==
    /\ t # <<>>
    /\ \E k \in 1..Len(t) : t[k] \notin Digits \cup {"."}
    /\ Lower(t) # S_NO
    /\ ~(t[Len(t)] = "." /\ WordCount(t) > 4)
    /\ Lower(t) \notin FormLabels

(***************************************************************************)
(* C1: in every result of process_pdf_document no outline entry's text     *)
(* equals the result's title, whatever the title is (assembled from the    *)
(* first page, the default, the fallback or the error title).              *)
(***************************************************************************)
C1_TitleNotInOutline ==
    pc = "returned" =>
        \A k \in 1..Len(structured_data.outline) :
            structured_data.outline[k].text # structured_data.title

\* a result for a document in which a line after the first page repeats the
\* title, in a heading style and as a valid heading
C1_Witness ==
    /\ Returned
    /\ \E pb \in FirstLineBlocks :
          /\ pb[1] > 1
          /\ LineText(FirstLine(pb)) = structured_data.title
          /\ StyleOf(FirstLine(pb)[1]) \in DOMAIN style_to_level
          /\ is_valid_heading(LineText(FirstLine(pb)))

(***************************************************************************)
(* C2: no first-page line that was collected as a title fragment (its      *)
(* first span has the largest rounded size of the page) is emitted as an   *)
(* outline entry.                                                          *)
(***************************************************************************)
C2_TitleFragmentsNotInOutline ==
    Returned =>
        \A pb \in FirstLineBlocks :
            (/\ pb[1] = 1
             /\ Round(FirstLine(pb)[1].size) = MaxFontSize(0, thePages[1]))
            => ~\E k \in 1..Len(theOutline) :
                   /\ theOutline[k].page = 1
                   /\ theOutline[k].text = LineText(FirstLine(pb))

(***************************************************************************)
(* C3: a document whose pages after the first hold no text run (a          *)
(* document of one page included) gets an empty outline.                   *)
(***************************************************************************)
C3_EmptyBodyEmptyOutline ==
    (/\ Returned
     /\ \A pbl \in AllLines : pbl[1] = 1)
    => theOutline = <<>>

(***************************************************************************)
(* C4: every outline entry's level is H1, H2 or H3, and the heading level  *)
(* map has at most three styles.                                           *)
(***************************************************************************)
C4_LevelBound ==
    /\ Cardinality(DOMAIN style_to_level) <= 3
    /\ \A s \in DOMAIN style_to_level : style_to_level[s] \in {"H1", "H2", "H3"}
    /\ pc = "returned" =>
          \A k \in 1..Len(structured_data.outline) :
              structured_data.outline[k].level \in {"H1", "H2", "H3"}

\* a result with an H3 entry for a document that has a fourth heading style
C4_Witness ==
    /\ Returned
    /\ \E k \in 1..Len(theOutline) : theOutline[k].level = "H3"
    /\ Cardinality({ s \in { StyleOf(LineAt(pbl)[1]) :
                               pbl \in { x \in AllLines : x[1] \in ScannedPages } } :
                       IsHeadingStyle(s, body_style) }) >= 4

(***************************************************************************)
(* C8: when the heading level map is not empty, the outline holds one      *)
(* entry, in reading order, for every line of every block of every page    *)
(* (lines after the first of a block included) whose text is not empty,    *)
(* is not the title, is not in the ignore set, passes the validator and    *)
(* whose first span's style is in the map.                                 *)
(***************************************************************************)
LineEntry(line, page) ==
    IF /\ line # <<>>
       /\ LineText(line) # <<>>
       /\ LineText(line) # title
       /\ LineText(line) \notin texts_to_ignore
       /\ StyleOf(line[1]) \in DOMAIN style_to_level
       /\ PassesRules(LineText(line))
    THEN << [level |-> style_to_level[StyleOf(line[1])],
             text |-> LineText(line),
             page |-> page] >>
    ELSE <<>>

EntriesOfEveryLine ==
    ConcatAll([p \in 1..Len(thePages) |->
        ConcatAll([b \in 1..Len(thePages[p]) |->
            IF "lines" \in DOMAIN thePages[p][b]
            THEN ConcatAll([l \in 1..Len(thePages[p][b].lines) |->
                     LineEntry(thePages[p][b].lines[l], p)])
            ELSE <<>>])])

C8_EveryLineEmitted ==
    (Returned /\ DOMAIN style_to_level # {}) => theOutline = EntriesOfEveryLine

(***************************************************************************)
(* C9: for a non-empty style table, the body style is the style counted    *)
(* most often, the first met among equals; the candidates are the styles   *)
(* larger than the body style, or as large, bold and not the body style;   *)
(* ordered by size, largest first, and by first meeting among equal sizes, *)
(* the first three get H1, H2, H3.  So a higher level never has a smaller  *)
(* size, and the body style has no level.                                  *)
(***************************************************************************)
\* the styles of the scanned lines, in reading order
Scanned == ScannedStyles(thePages, start_page_for_styles(thePages))
TimesMet(S, s) == Cardinality({ k \in 1..Len(S) : S[k] = s })
FirstMet(S, s) == CHOOSE k \in 1..Len(S) : S[k] = s /\ \A j \in 1..(k - 1) : S[j] # s
Candidates(S) ==
    { s \in { S[k] : k \in 1..Len(S) } :
        \/ s[1] > body_style[1]
        \/ (s[1] = body_style[1] /\ s[2] /\ s # body_style) }
\* the candidates that come before s in the order of the levels
Before(S, s) ==
    { t \in Candidates(S) :
        t[1] > s[1] \/ (t[1] = s[1] /\ FirstMet(S, t) < FirstMet(S, s)) }
LevelOfRank == <<"H1", "H2", "H3">>
\* the style pass has just run on a document: the third pass is next, or
\* the early return was taken
Learned ==
    \/ pc = "pass3"
    \/ (pc = "returned" /\ disk[listing[1]].opens /\ DOMAIN style_to_level = {})

Qualifies(pb) ==
    /\ StyleOf(FirstLine(pb)[1]) \in DOMAIN style_to_level
    /\ LineText(FirstLine(pb)) \notin texts_to_ignore
    /\ PassesRules(LineText(FirstLine(pb)))

C10_EntriesAreHeadings ==
    Returned =>
        /\ \A k \in 1..Len(theOutline) :
              \E pb \in FirstLineBlocks :
                  /\ pb[1] = theOutline[k].page
                  /\ LineText(FirstLine(pb)) = theOutline[k].text
                  /\ Qualifies(pb)
                  /\ style_to_level[StyleOf(FirstLine(pb)[1])] = theOutline[k].level
        /\ Len(theOutline) <= Cardinality({ pb \in FirstLineBlocks : Qualifies(pb) })

\* a result for a document in which a line after the first page, in a
\* heading style and a valid heading, repeats a text of the ignore set
C10_Witness ==
    /\ Returned
    /\ \E pb \in FirstLineBlocks :
          /\ pb[1] > 1
          /\ LineText(FirstLine(pb)) \in texts_to_ignore
          /\ LineText(FirstLine(pb)) # title
          /\ StyleOf(FirstLine(pb)[1]) \in DOMAIN style_to_level
          /\ is_valid_heading(LineText(FirstLine(pb)))

(***************************************************************************)
(* C5: when process_all_pdfs has finished, every listed name that ends in  *)
(* .pdf has its own JSON file holding its result, so there are as many     *)
(* JSON files as PDF inputs.                                               *)
(***************************************************************************)
PdfInputs == { k \in 1..Len(listing) : IsPdfName(listing[k]) }

C5_OneOutputPerInput ==
    pc = "done" =>
        /\ \A k \in PdfInputs :
              /\ OutputName(listing[k]) \in DOMAIN output
              /\ output[OutputName(listing[k])] = results[k]
        /\ \A j, k \in PdfInputs : j # k => OutputName(listing[j]) # OutputName(listing[k])
        /\ Cardinality(DOMAIN output) = Cardinality(PdfInputs)

(***************************************************************************)
(* C6: a file that cannot be opened or parsed gets the error result, and   *)
(* the batch goes on: no failure ends the loop.                            *)
(***************************************************************************)
C6_FailuresContained ==
    /\ pc # "raised"
    /\ \A k \in 1..Len(results) :
          (IsPdfName(listing[k]) /\ ~(disk[listing[k]].opens /\ disk[listing[k]].loads))
          => results[k] = ErrorResult(listing[k])

(***************************************************************************)
(* C7: when process_pdf_document is left, the document it opened is        *)
(* closed: no document is open between two files of a batch.               *)
(***************************************************************************)
C7_HandleClosed ==
    pc \in {"returned", "loop", "open", "done"} => open_handles = {}

====
